---- MODULE Spec2Model ----
(***************************************************************************)
(* The client-side presentation state of the Franstrack page (src/App.tsx): *)
(* the cookie-consent banner and its persisted flag, the navigation bar's  *)
(* scroll flag with its window listener, and the pricing billing cycle.    *)
(*                                                                         *)
(* One React root renders FranstrackSite.  A mount commits the first       *)
(* render with every useState at its initial value (root = "committed");   *)
(* the passive mount effects of Nav and CookieBanner are then flushed in   *)
(* one step (root = "ready").  React flushes pending passive effects       *)
(* before it handles a click, so click handlers are enabled only in        *)
(* "ready"; a scroll of the viewport can happen at any time.  An exception *)
(* thrown inside an effect is not caught by any error boundary (the file   *)
(* has none), so React removes the whole tree (root = "crashed").  An      *)
(* exception thrown inside an event handler leaves the tree mounted and    *)
(* is reported as an uncaught error.                                       *)
(***************************************************************************)
EXTENDS Integers, FiniteSets, Sequences, TLC

\* ---- bounds of the model ----
MaxMounts == 3
MaxScrollY == 22

\* ---- program constants ----
\* The page is modelled where it runs: in a browser, where window and document
\* are defined.  The guards on isBrowser are kept in the actions.
isBrowser == TRUE
CookieKey == "ft_cookie_ok"
CookieValue == "1"
Threshold == 20
PrivacyHash == "#privacy"

\* The value getItem returns for a key that is not stored (JavaScript null).
Null == "<null>"

\* The ways the browser's storage can behave: working; readable but every
\* write throws (quota exceeded); every access throws (storage blocked).
StorageModes == {"ok", "readonly", "blocked"}

VARIABLES
    localStorage,   \* window.localStorage: a function from the stored keys to their values
    storageMode,    \* how the storage answers: an element of StorageModes
    root,           \* the React root: "none", "committed", "ready" or "crashed"
    gen,            \* number of mounts so far; names the current component instances
    visible,        \* CookieBanner's state
    scrolled,       \* Nav's state
    billingCycle,   \* Pricing's state
    scrollY,        \* window.scrollY
    listeners,      \* 'scroll' listeners registered on window, by owning Nav instance
    hash,           \* location.hash
    uncaught        \* an uncaught exception was reported since the last mount

vars == <<localStorage, storageMode, root, gen, visible, scrolled, billingCycle,
          scrollY, listeners, hash, uncaught>>

\* ---- storage ----
getItem(k) == IF k \in DOMAIN localStorage THEN localStorage[k] ELSE Null

setItem(k, v) == [x \in (DOMAIN localStorage) \cup {k} |-> IF x = k THEN v ELSE localStorage[x]]

\* JavaScript truthiness of what getItem returns: null and "" are falsy.
Truthy(v) == v \notin {Null, ""}

ReadThrows == storageMode = "blocked"
WriteThrows == storageMode # "ok"

HasFlag == CookieKey \in DOMAIN localStorage

EmptyStorage == [x \in {} |-> ""]

\* ---- CookieBanner ----
InitialVisible == FALSE

\* A read that hides the banner when the flag is absent.
ConsentVisibleInverted == Truthy(getItem(CookieKey))

\* What the mount effect passes to setVisible: !localStorage.getItem("ft_cookie_ok").
ConsentVisible == ~Truthy(getItem(CookieKey))

\* ---- Nav ----
InitialScrolled == FALSE

\* A threshold test that already fires at the threshold itself.
PastThresholdInclusive(y) == y >= Threshold

\* What handleScroll passes to setScrolled: window.scrollY > 20.
PastThreshold(y) == y > Threshold

addEventListener(ls, h) == ls \cup {h}

\* A cleanup that hands removeEventListener a function that was never registered.
removeEventListenerOther(ls, h) == ls

removeEventListener(ls, h) == ls \ {h}

\* The Nav instance whose handleScroll closure is h is still mounted.
Live(h) == h = gen /\ root \in {"committed", "ready"}

\* ---- Pricing ----
InitialBillingCycle == "monthly"

plans == <<
    [name |-> "Essential",    monthlyPrice |-> 12, annualPrice |-> 10],
    [name |-> "Professional", monthlyPrice |-> 18, annualPrice |-> 15],
    [name |-> "Enterprise",   monthlyPrice |-> 25, annualPrice |-> 20] >>

\* The saving the Annual button's label states: "Annual (Save 20%)".
SavePercent == 20

\* A price display with the two fields the wrong way round.
DisplayedPriceSwapped(plan, cycle) == IF cycle = "monthly" THEN plan.annualPrice ELSE plan.monthlyPrice

\* billingCycle === 'monthly' ? plan.monthlyPrice : plan.annualPrice
DisplayedPrice(plan, cycle) == IF cycle = "monthly" THEN plan.monthlyPrice ELSE plan.annualPrice

DisplayedPrices(cycle) == [i \in DOMAIN plans |-> DisplayedPrice(plans[i], cycle)]

\* ---- initial state: a fresh browser profile, nothing rendered yet ----
Init ==
    /\ localStorage = EmptyStorage
    /\ storageMode \in StorageModes
    /\ root = "none"
    /\ gen = 0
    /\ visible = InitialVisible
    /\ scrolled = InitialScrolled
    /\ billingCycle = InitialBillingCycle
    /\ scrollY = 0
    /\ listeners = {}
    /\ hash = ""
    /\ uncaught = FALSE

\* ---- page lifecycle ----
\* The first render of FranstrackSite is committed: every useState holds its
\* initial value and no effect has run yet.
Mount ==
    /\ root = "none"
    /\ gen < MaxMounts
    /\ root' = "committed"
    /\ gen' = gen + 1
    /\ visible' = InitialVisible
    /\ scrolled' = InitialScrolled
    /\ billingCycle' = InitialBillingCycle
    /\ uncaught' = FALSE
    /\ UNCHANGED <<localStorage, storageMode, scrollY, listeners, hash>>

\* Nav's mount effect.
NavEffect(ls) == IF ~isBrowser THEN ls ELSE addEventListener(ls, gen)

\* The function Nav's mount effect returns, run when Nav is removed.
NavCleanup(ls) == IF ~isBrowser THEN ls ELSE removeEventListener(ls, gen)

\* The passive mount effects, in tree order: Nav's, then CookieBanner's.  When
\* CookieBanner's effect throws, React removes the tree, which runs Nav's cleanup.
FlushPassiveEffects ==
    /\ root = "committed"
    /\ IF isBrowser /\ ReadThrows
       THEN /\ root' = "crashed"
            /\ uncaught' = TRUE
            /\ listeners' = NavCleanup(NavEffect(listeners))
            /\ visible' = InitialVisible
            /\ scrolled' = InitialScrolled
            /\ billingCycle' = InitialBillingCycle
       ELSE /\ root' = "ready"
            /\ listeners' = NavEffect(listeners)
            /\ visible' = IF isBrowser THEN ConsentVisible ELSE visible
            /\ UNCHANGED <<uncaught, scrolled, billingCycle>>
    /\ UNCHANGED <<localStorage, storageMode, gen, scrollY, hash>>

\* A teardown that also wipes the storage.
UnmountClearing ==
    /\ root \in {"committed", "ready", "crashed"}
    /\ root' = "none"
    /\ listeners' = IF root = "ready" THEN NavCleanup(listeners) ELSE listeners
    /\ visible' = InitialVisible
    /\ scrolled' = InitialScrolled
    /\ billingCycle' = InitialBillingCycle
    /\ localStorage' = EmptyStorage
    /\ UNCHANGED <<storageMode, gen, scrollY, hash, uncaught>>

\* The tree is removed (component teardown, or the first half of a reload).
\* Nav's cleanup exists only once its effect has run.
Unmount ==
    /\ root \in {"committed", "ready", "crashed"}
    /\ root' = "none"
    /\ listeners' = IF root = "ready" THEN NavCleanup(listeners) ELSE listeners
    /\ visible' = InitialVisible
    /\ scrolled' = InitialScrolled
    /\ billingCycle' = InitialBillingCycle
    /\ UNCHANGED <<localStorage, storageMode, gen, scrollY, hash, uncaught>>

\* ---- CookieBanner's controls (rendered only while visible) ----
\* onClick of Accept: the write comes first, so a throwing write skips setVisible.
Accept ==
    /\ root = "ready"
    /\ visible
    /\ IF isBrowser /\ WriteThrows
       THEN /\ uncaught' = TRUE
            /\ UNCHANGED <<localStorage, visible>>
       ELSE /\ localStorage' = IF isBrowser THEN setItem(CookieKey, CookieValue) ELSE localStorage
            /\ visible' = FALSE
            /\ UNCHANGED uncaught
    /\ UNCHANGED <<storageMode, root, gen, scrolled, billingCycle, scrollY, listeners, hash>>

\* A Manage link that also dismisses the banner.
ManageDismisses ==
    /\ root = "ready"
    /\ visible
    /\ hash' = PrivacyHash
    /\ visible' = FALSE
    /\ UNCHANGED <<localStorage, storageMode, root, gen, scrolled, billingCycle,
                   scrollY, listeners, uncaught>>

\* The Manage link: an in-page anchor, no handler.
Manage ==
    /\ root = "ready"
    /\ visible
    /\ hash' = PrivacyHash
    /\ UNCHANGED <<localStorage, storageMode, root, gen, visible, scrolled, billingCycle,
                   scrollY, listeners, uncaught>>

\* ---- Pricing's toggle ----
SelectMonthly ==
    /\ root = "ready"
    /\ billingCycle' = "monthly"
    /\ UNCHANGED <<localStorage, storageMode, root, gen, visible, scrolled,
                   scrollY, listeners, hash, uncaught>>

\* An Annual button that flips the cycle instead of setting it.
SelectAnnualToggles ==
    /\ root = "ready"
    /\ billingCycle' = IF billingCycle = "monthly" THEN "annual" ELSE "monthly"
    /\ UNCHANGED <<localStorage, storageMode, root, gen, visible, scrolled,
                   scrollY, listeners, hash, uncaught>>

SelectAnnual ==
    /\ root = "ready"
    /\ billingCycle' = "annual"
    /\ UNCHANGED <<localStorage, storageMode, root, gen, visible, scrolled,
                   scrollY, listeners, hash, uncaught>>

\* ---- environment ----
\* The viewport scrolls to y and the 'scroll' event is dispatched to the
\* registered listeners; a listener of a removed instance sets no state.
Scroll ==
    \E y \in 0..MaxScrollY :
        /\ y # scrollY
        /\ scrollY' = y
        /\ scrolled' = IF \E h \in listeners : Live(h) THEN PastThreshold(y) ELSE scrolled
        /\ UNCHANGED <<localStorage, storageMode, root, gen, visible, billingCycle,
                       listeners, hash, uncaught>>

\* The browser's storage starts or stops failing (settings change, quota fills).
StorageChange ==
    \E m \in StorageModes :
        /\ m # storageMode
        /\ storageMode' = m
        /\ UNCHANGED <<localStorage, root, gen, visible, scrolled, billingCycle,
                       scrollY, listeners, hash, uncaught>>

Next ==
    \/ Mount
    \/ FlushPassiveEffects
    \/ Unmount
    \/ Accept
    \/ Manage
    \/ SelectMonthly
    \/ SelectAnnual
    \/ Scroll
    \/ StorageChange

Spec == Init /\ [][Next]_vars

\* ======================= properties =======================

\* C1: for every mount, once the mount effect has completed, the banner is
\* Visible if the consent flag was absent from storage before the mount and
\* Hidden if it was present.  The storage is untouched by the mount and while
\* the effect is pending, so the flag the effect reads is the flag from before.
C1_BannerAfterMount ==
    [][ /\ (root = "none" /\ root' = "committed") => localStorage' = localStorage
        /\ root = "committed" =>
              /\ localStorage' = localStorage
              /\ root' = "ready" => visible' = ~HasFlag ]_vars

\* A mount whose effect completed with the flag absent: the banner is shown.
C1_Witness == root = "ready" /\ visible /\ ~HasFlag /\ gen = 2

\* C2: whenever the banner is Visible, Accept always leads to a state where
\* the banner is Hidden and the flag is present; Accept is not enabled in any
\* state where the banner is Hidden.
C2_AcceptHidesAndPersists ==
    /\ [](~visible => ~ENABLED Accept)
    /\ [][ (visible /\ Accept) => (~visible' /\ HasFlag') ]_vars

\* C3: end to end.  From a fresh session without the flag the banner becomes
\* Visible after mount; after Accept the banner is Hidden and the flag is
\* persisted; once the flag is persisted the banner is Hidden after every
\* reload and never becomes Visible.
C3_EndToEnd ==
    /\ [][ /\ (FlushPassiveEffects /\ ~HasFlag) => (root' = "ready" /\ visible')
           /\ Accept => (~visible' /\ HasFlag') ]_vars
    /\ [](HasFlag => ~visible)

\* C4: if reading the flag fails at mount, the read counts as 'not consented':
\* the banner ends up Visible and the rest of the page stays mounted.
C4_ReadFailureFailsOpen ==
    [][ (FlushPassiveEffects /\ ReadThrows) => (root' = "ready" /\ visible') ]_vars

\* C5: if writing the flag fails on Accept, the error is silently ignored: the
\* banner still becomes Hidden, no error is exposed, and the flag stays absent.
C5_WriteFailureIgnored ==
    [][ (Accept /\ WriteThrows) =>
            (~visible' /\ root' = "ready" /\ uncaught' = uncaught /\ ~HasFlag') ]_vars

\* C6: the consent flag is monotone: once present it is never removed or
\* changed, and it goes from absent to present only in an Accept step.
C6_FlagMonotone ==
    [][ /\ HasFlag => localStorage' = localStorage
        /\ (~HasFlag /\ HasFlag') => Accept ]_vars

\* The flag granted in an earlier session is still there after reloads.
C6_Witness == HasFlag /\ gen = 3 /\ root = "ready" /\ getItem(CookieKey) = CookieValue

\* C7: Hidden is terminal for the session: once the mounted, initialised
\* banner is Hidden no step of the same session makes it Visible, and the
\* only step of a session that takes the banner out of Visible is Accept.
C7_HiddenTerminal ==
    [][ /\ (root = "ready" /\ root' = "ready" /\ ~visible) => ~visible'
        /\ (visible /\ ~visible' /\ root' = "ready") => Accept ]_vars

\* The banner was accepted in the first session, after Manage had been clicked.
C7_Witness == root = "ready" /\ gen = 1 /\ ~visible /\ HasFlag /\ hash = PrivacyHash

\* C8: while Nav is mounted with its mount effect run, after every scroll
\* event scrolled equals (scrollY > 20) for the position of that event,
\* whatever it was before: 20 gives false, 21 gives true, 0 gives false.
C8_ScrollFlag ==
    [][ (root = "ready" /\ scrollY' # scrollY) =>
            /\ scrolled' = (scrollY' > 20)
            /\ scrollY' = 20 => ~scrolled'
            /\ scrollY' = 21 => scrolled'
            /\ scrollY' = 0 => ~scrolled' ]_vars

\* The viewport was scrolled just past the threshold under a mounted Nav.
C8_Witness == root = "ready" /\ scrollY = 21 /\ scrolled

\* C9: the only registered scroll listener is the one of the Nav instance
\* whose mount effect has run and which is still mounted, so there is one
\* listener while such an instance exists and none otherwise; and a scroll
\* delivered while no Nav is mounted changes nothing but the scroll position.
C9_ListenerLifecycle ==
    /\ [](listeners = IF root = "ready" THEN {gen} ELSE {})
    /\ [](Cardinality(listeners) = IF root = "ready" THEN 1 ELSE 0)
    /\ [][ (root \in {"none", "crashed"} /\ scrollY' # scrollY) =>
              UNCHANGED <<localStorage, storageMode, root, gen, visible, scrolled,
                          billingCycle, listeners, hash, uncaught>> ]_vars

\* The second Nav instance is subscribed and the first one's listener is gone.
C9_Witness == root = "ready" /\ gen = 2 /\ listeners = {2}

\* C10: the billing cycle is Monthly at mount; a selection makes it the
\* selected value and changes nothing else; selecting the current value
\* changes nothing at all, the displayed prices included; and within a session
\* only a selection changes it.
C10_PricingToggle ==
    /\ [](root = "committed" => billingCycle = "monthly")
    /\ [][ /\ (root # "committed" /\ root' = "committed") => billingCycle' = "monthly"
           /\ SelectAnnual => billingCycle' = "annual"
           /\ SelectMonthly => billingCycle' = "monthly"
           /\ (SelectAnnual \/ SelectMonthly) =>
                 UNCHANGED <<localStorage, storageMode, root, gen, visible, scrolled,
                             scrollY, listeners, hash, uncaught>>
           /\ (SelectAnnual /\ billingCycle = "annual") =>
                 (UNCHANGED vars /\ DisplayedPrices(billingCycle') = DisplayedPrices(billingCycle))
           /\ (SelectMonthly /\ billingCycle = "monthly") =>
                 (UNCHANGED vars /\ DisplayedPrices(billingCycle') = DisplayedPrices(billingCycle))
           /\ (billingCycle' # billingCycle /\ root' = "ready") =>
                 (SelectAnnual \/ SelectMonthly) ]_vars

\* Annual is selected and the annual prices are the ones displayed.
C10_Witness ==
    root = "ready" /\ billingCycle = "annual" /\ DisplayedPrices(billingCycle) = <<10, 15, 20>>

\* C11: every plan's monthlyPrice is at least its annualPrice, and in every
\* reachable state the price displayed for each plan is its monthlyPrice when
\* the cycle is Monthly and its annualPrice when it is Annual: in plan order
\* Monthly shows 12, 18, 25 and Annual shows 10, 15, 20.
C11_DisplayedPrices ==
    /\ \A i \in DOMAIN plans : plans[i].monthlyPrice >= plans[i].annualPrice
    /\ [plan \in DOMAIN plans |-> plans[plan].name] = <<"Essential", "Professional", "Enterprise">>
    /\ \A i \in DOMAIN plans :
          /\ billingCycle = "monthly" => DisplayedPrice(plans[i], billingCycle) = plans[i].monthlyPrice
          /\ billingCycle = "annual" => DisplayedPrice(plans[i], billingCycle) = plans[i].annualPrice
    /\ billingCycle = "monthly" => DisplayedPrices(billingCycle) = <<12, 18, 25>>
    /\ billingCycle = "annual" => DisplayedPrices(billingCycle) = <<10, 15, 20>>

\* Annual was selected in a later session, after the cycle had reset to Monthly.
C11_Witness == root = "ready" /\ gen = 2 /\ billingCycle = "annual"

\* C12: in every reachable state in which Nav is mounted, the states before
\* the first scroll event included, scrolled equals (scrollY > 20), whatever
\* scroll position the page was mounted at.
C12_ScrolledTracksScrollY ==
    root = "ready" => scrolled = (scrollY > 20)

\* C13: the annual price of every plan is the saving the Annual label states
\* (20%) on its monthly price: annualPrice * 100 = monthlyPrice * 80.
C13_AnnualSavesTwentyPercent ==
    root \in {"committed", "ready"} =>
        \A i \in DOMAIN plans :
            /\ plans[i].annualPrice * 100 = plans[i].monthlyPrice * (100 - SavePercent)
            /\ plans[i].annualPrice * 100 = plans[i].monthlyPrice * 80

====
